---- MODULE Spec2Model ----
(***************************************************************************)
(* GenericAnalyticsAPI (src/src/api/index.ts): capture, enrichment,        *)
(* batching queue, flush timer, delivery and retry bookkeeping.            *)
(*                                                                         *)
(* One step of the model is one run-to-completion turn of the JavaScript   *)
(* event loop: the code between two suspension points (await) runs         *)
(* atomically.  The suspension points are the identity lookup, the catalog *)
(* lookup and the fetch of a delivery call.                                *)
(***************************************************************************)
EXTENDS Integers, Sequences, FiniteSets, TLC

\* ---------------------------------------------------------------- bounds
MaxCaptures == 2        \* capture calls made by the host application
MaxClock == 3           \* the wall clock is followed for MaxClock milliseconds
MaxRand == 1            \* Math.random() fragments are 1..MaxRand
MaxSessionEvents == 2   \* session-state notifications delivered

\* ------------------------------------------------------- program constants
retryLimit == 3
DefaultIntervalMinutes == 30

\* An optional value: absent is the empty sequence, present is non-empty.
Undefined == <<>>

Calls == 1..MaxCaptures
Payloads == {"click"}                       \* AnalyticsEvent payloads
UserRefs == {<<"user:default/alice">>}      \* identity.userEntityRef
Entities == {<<"team-a">>}                  \* catalog entities
ConfigIntervals == {Undefined, <<0>>}       \* app.analytics.generic.interval
RandFragments == 1..MaxRand
SessionStates == {"SignedIn", "SignedOut"}
FetchOutcomes == {"ok", "status", "transport"}   \* 2xx, other status, rejection

VARIABLES
    flushInterval,      \* this.flushInterval (ms)
    subscribed,         \* whether sessionState$().subscribe succeeded
    sessionId,          \* this.sessionId
    eventQueue,         \* this.eventQueue
    eventRetryCounter,  \* this.eventRetryCounter
    errorSink,          \* what errorApi.post has received, in order
    inflight,           \* flushEvents calls suspended at their fetch, in start order
    calls,              \* capture calls and where each is suspended
    now,                \* the wall clock
    lastTick,           \* the clock reading at the latest timer tick, -1 before
    sessionEvents,      \* session-state notifications delivered so far
    stats,              \* history: per captured occurrence, its delivery record
    epoch               \* history: what happened since the last timer tick

vars == <<flushInterval, subscribed, sessionId, eventQueue, eventRetryCounter,
          errorSink, inflight, calls, now, lastTick, sessionEvents, stats, epoch>>

\* ------------------------------------------------------------ pure helpers

\* constructor: minutes to milliseconds, 30 minutes when not configured
FlushIntervalOf(cfg) ==
    IF cfg # Undefined THEN cfg[1] * 60 * 1000
    ELSE DefaultIntervalMinutes * 60 * 1000

\* constructor: which function this.captureEvent is bound to
CaptureImpl(interval) ==
    IF interval = 0 THEN "instantCaptureEvent" ELSE "captureEvent"

\* mutant: the interval timer is installed whatever the interval
TimerStarted_Always(interval) == TRUE

\* constructor: whether startFlushCycle() installed the interval timer
TimerStarted(interval) == interval # 0

\* mutant: the random fragment is left out of the id
generateSessionId_ClockOnly(r, t) == <<0, t>>

\* generateSessionId: random base-36 fragment followed by the base-36 clock
generateSessionId(r, t) == <<r, t>>

\* The record captureEvent / instantCaptureEvent builds.  occ is history only:
\* the capture call the record came from; it is not a field of the program's
\* object and is not serialised.
Enriched(c, ev, ts, user, meta, sid) ==
    [event |-> ev, timestamp |-> ts, user |-> user, teamMetadata |-> meta,
     sessionId |-> sid, occ |-> c]

\* JSON.stringify(event): the key/value pairs in field order, a field whose
\* value is undefined left out.
EventId(e) ==
    SelectSeq(<< <<"event", <<e.event>> >>,
                 <<"timestamp", <<e.timestamp>> >>,
                 <<"user", e.user>>,
                 <<"teamMetadata", e.teamMetadata>>,
                 <<"sessionId", e.sessionId>> >>,
              LAMBDA kv : kv[2] # Undefined)

\* this.eventRetryCounter.get(eventId) || 0
Retries(counter, id) == IF id \in DOMAIN counter THEN counter[id] ELSE 0

\* mutant: the count is started again at 1 on every failure
SetRetries_Reset(counter, id, n) ==
    [k \in DOMAIN counter \cup {id} |-> IF k = id THEN 1 ELSE counter[k]]

\* this.eventRetryCounter.set(eventId, n)
SetRetries(counter, id, n) ==
    [k \in DOMAIN counter \cup {id} |-> IF k = id THEN n ELSE counter[k]]

\* The two reports flushEvents posts.  The general report's text also quotes
\* the error caught; the text is not modelled, only which report it is.
FlushError == [kind |-> "flush", id |-> <<>>]
MaxRetriesError(id) == [kind |-> "max", id |-> id]

\* mutant: there is no limit, a failed event is always put back
RetryOrReport_Unlimited(st, e) ==
    LET eventId == EventId(e)
        retries == Retries(st.counter, eventId)
    IN  [st EXCEPT !.queue = Append(@, e),
                   !.counter = SetRetries(@, eventId, retries + 1)]

\* mutant: the event put back is stamped with the session id of the moment
RetryOrReport_Restamp(st, e) ==
    LET eventId == EventId(e)
        retries == Retries(st.counter, eventId)
    IN  IF retries < retryLimit
        THEN [st EXCEPT !.queue = Append(@, [e EXCEPT !.sessionId = sessionId]),
                        !.counter = SetRetries(@, eventId, retries + 1)]
        ELSE [st EXCEPT !.sink = Append(@, MaxRetriesError(eventId)),
                        !.dropped = @ \cup {e.occ}]

\* One iteration of events.forEach in the catch block of flushEvents.
\* st.dropped collects the occurrences abandoned (history only).
RetryOrReport(st, e) ==
    LET eventId == EventId(e)
        retries == Retries(st.counter, eventId)
    IN  IF retries < retryLimit
        THEN [st EXCEPT !.queue = Append(@, e),
                        !.counter = SetRetries(@, eventId, retries + 1)]
        ELSE [st EXCEPT !.sink = Append(@, MaxRetriesError(eventId)),
                        !.dropped = @ \cup {e.occ}]

\* mutant: only the first event of the batch is looked at
ForEachEvent_HeadOnly(st, events) ==
    IF events = <<>> THEN st ELSE RetryOrReport(st, Head(events))

\* events.forEach(...) over the batch, in order
RECURSIVE ForEachEvent(_, _)
ForEachEvent(st, events) ==
    IF events = <<>> THEN st
    ELSE ForEachEvent(RetryOrReport(st, Head(events)), Tail(events))

\* The catch block of flushEvents: one general report, then the per-event loop.
OnFlushFailure(queue, counter, sink, events) ==
    ForEachEvent([queue |-> queue, counter |-> counter,
                  sink |-> Append(sink, FlushError),
                  dropped |-> {}],
                 events)

\* mutant: the length check is missing, an empty batch is sent too
StartFlush_Unguarded(pending, events) == Append(pending, events)

\* flushEvents up to its fetch: nothing is sent for an empty batch.
StartFlush(pending, events) ==
    IF Len(events) = 0 THEN pending ELSE Append(pending, events)

\* mutants of splice(0): slice(0) copies without removing; splice(0, 1)
\* removes the first element only
SpliceAll_Slice(queue) == [removed |-> queue, rest |-> queue]
SpliceAll_First(queue) == [removed |-> <<Head(queue)>>, rest |-> Tail(queue)]

\* this.eventQueue.splice(0): the removed elements and what is left
SpliceAll(queue) == [removed |-> queue, rest |-> <<>>]

Occs(events) == {events[i].occ : i \in 1..Len(events)}
RemoveAt(s, i) == SubSeq(s, 1, i - 1) \o SubSeq(s, i + 1, Len(s))
Bump(f, S) == [o \in DOMAIN f |-> IF o \in S THEN f[o] + 1 ELSE f[o]]

\* ------------------------------------------------------------------- Init

\* built is history: whether the call got as far as building its record
IdleCall == [pc |-> "idle", event |-> "", user |-> Undefined, outcome |-> "none",
             built |-> FALSE, callTime |-> 0, callSid |-> Undefined]

\* The state the constructor leaves.
Init ==
    /\ \E cfg \in ConfigIntervals : flushInterval = FlushIntervalOf(cfg)
    /\ subscribed \in BOOLEAN
    /\ sessionId = Undefined
    /\ eventQueue = <<>>
    /\ eventRetryCounter = <<>>
    /\ errorSink = <<>>
    /\ inflight = <<>>
    /\ calls = [c \in Calls |-> IdleCall]
    /\ now = 0
    /\ lastTick = -1
    /\ sessionEvents = 0
    /\ stats = [failed |-> [c \in Calls |-> 0], ok |-> [c \in Calls |-> 0],
                dropped |-> [c \in Calls |-> 0]]
    /\ epoch = [pushed |-> <<>>, clean |-> TRUE, ticked |-> FALSE, flushed |-> 0]

\* ---------------------------------------------------------------- inputs

\* What identityApi.getBackstageIdentity() settles with.
IdentityResults ==
    {[threw |-> FALSE, value |-> u] : u \in UserRefs \cup {Undefined}}
        \cup {[threw |-> TRUE, value |-> Undefined]}

\* What catalogApi.getEntityByRef(user) settles with: the entity, or a throw.
CatalogResults ==
    {[threw |-> FALSE, value |-> m] : m \in Entities}
        \cup {[threw |-> TRUE, value |-> Undefined]}

\* getUser: the user reference, undefined when the lookup threw
getUser(r) == IF r.threw THEN Undefined ELSE r.value

\* mutant: the guard on the user is missing
UserResolved_Always(user) == TRUE

\* the guard `if (!user) return` read the other way round
UserResolved(user) == user # Undefined

\* mutant: the session id is read before the lookups, when capture is called
EnrichedOf_AtCall(c, call, meta, ts, currentSid) ==
    Enriched(c, call.event, ts, call.user, meta, call.callSid)

\* the object literal pushed / flushed: clock and session id are read when
\* the literal is evaluated, after both lookups
EnrichedOf(c, call, meta, ts, currentSid) ==
    Enriched(c, call.event, ts, call.user, meta, currentSid)

\* mutant: instant mode flushes the queue together with the new record
InstantBatch_WithQueue(queue, e) == Append(queue, e)

\* instantCaptureEvent: the batch handed to flushEvents
InstantBatch(queue, e) == <<e>>

\* mutant: a response with a non-OK status is taken for a success
DeliveryFailed_TransportOnly(outcome) == outcome = "transport"

\* try/catch of flushEvents: a rejected fetch and a non-OK status both throw
DeliveryFailed(outcome) == outcome # "ok"

\* a capture call that has settled keeps only how it settled
Settled(outcome) == [IdleCall EXCEPT !.pc = "done", !.outcome = outcome]

\* a capture call whose record was built and queued or delivered
Built(outcome) == [Settled(outcome) EXCEPT !.built = TRUE]

\* instantCaptureEvent suspended at `await this.flushEvents(...)`; history:
\* it still remembers the clock and session id read when it was called
Flushing(call) ==
    [IdleCall EXCEPT !.pc = "flushing", !.built = TRUE,
                     !.callTime = call.callTime, !.callSid = call.callSid]

\* ---------------------------------------------------------------- actions

\* captureEvent(event) / instantCaptureEvent(event) up to `await getUser()`
CaptureEvent(c, ev) ==
    /\ calls[c].pc = "idle"
    /\ IF c = 1 THEN TRUE ELSE calls[c - 1].pc # "idle"
    /\ calls' = [calls EXCEPT ![c] = [IdleCall EXCEPT !.pc = "identity",
                                          !.event = ev, !.callTime = now,
                                          !.callSid = sessionId]]
    /\ UNCHANGED <<flushInterval, subscribed, sessionId, eventQueue,
                   eventRetryCounter, errorSink, inflight, now, lastTick,
                   sessionEvents, stats, epoch>>

\* getUser settles; on no user the capture returns, else it calls the catalog
GetUserReturns(c, r) ==
    /\ calls[c].pc = "identity"
    /\ LET user == getUser(r)
       IN  calls' = [calls EXCEPT ![c] =
                IF UserResolved(user)
                THEN [@ EXCEPT !.pc = "catalog", !.user = user]
                ELSE Settled("returned")]
    /\ UNCHANGED <<flushInterval, subscribed, sessionId, eventQueue,
                   eventRetryCounter, errorSink, inflight, now, lastTick,
                   sessionEvents, stats, epoch>>

\* captureEvent after `await getEntityByRef`: push, and in the (unreachable
\* for this binding) zero-interval case pop the element back and flush it
CaptureEventPush(c, e) ==
    LET pushed == Append(eventQueue, e)
        zero == flushInterval = 0
        eventToFlush == pushed[Len(pushed)]
    IN  /\ eventQueue' = IF zero THEN SubSeq(pushed, 1, Len(pushed) - 1) ELSE pushed
        /\ inflight' = IF zero THEN StartFlush(inflight, <<eventToFlush>>) ELSE inflight
        /\ epoch' = IF zero THEN epoch ELSE [epoch EXCEPT !.pushed = Append(@, e)]
        /\ calls' = [calls EXCEPT ![c] = Built("returned")]

\* instantCaptureEvent after `await getEntityByRef`: flush the one event and
\* wait for flushEvents
InstantCaptureEventFlush(c, e) ==
    /\ inflight' = StartFlush(inflight, InstantBatch(eventQueue, e))
    /\ calls' = [calls EXCEPT ![c] = Flushing(@)]
    /\ UNCHANGED <<eventQueue, epoch>>

\* new Date() / Date.now() is read only while the clock is followed: a reading
\* names its millisecond exactly, and MaxClock stands for all later time
ClockReadable == now < MaxClock

\* getEntityByRef settles: a throw rejects the capture call's promise,
\* otherwise the event is enriched and queued or flushed
GetEntityByRefReturns(c, r) ==
    /\ calls[c].pc = "catalog"
    /\ IF r.threw
       THEN /\ calls' = [calls EXCEPT ![c] = Settled("rejected")]
            /\ UNCHANGED <<eventQueue, inflight, epoch>>
       ELSE LET e == EnrichedOf(c, calls[c], r.value, now, sessionId)
            IN  /\ ClockReadable
                /\ IF CaptureImpl(flushInterval) = "captureEvent"
                   THEN CaptureEventPush(c, e)
                   ELSE InstantCaptureEventFlush(c, e)
    /\ UNCHANGED <<flushInterval, subscribed, sessionId, eventRetryCounter,
                   errorSink, now, lastTick, sessionEvents, stats>>

\* history: a tick closes the epoch; flushed is the size of the batch it took
\* when a tick came before it and no delivery failed in between, else 0
NextEpoch(n) ==
    [pushed |-> <<>>, clean |-> TRUE, ticked |-> TRUE,
     flushed |-> IF epoch.ticked /\ epoch.clean THEN n ELSE 0]

\* the interval is at least a millisecond: no two ticks fall in the same
\* millisecond (MaxClock stands for all later time, where ticks go on)
TimerDue == now > lastTick \/ now = MaxClock

\* the setInterval callback of startFlushCycle
FlushTimer ==
    /\ TimerStarted(flushInterval)
    /\ TimerDue
    /\ lastTick' = now
    /\ IF Len(eventQueue) > 0
       THEN LET sp == SpliceAll(eventQueue)
            IN  /\ eventQueue' = sp.rest
                /\ inflight' = StartFlush(inflight, sp.removed)
                /\ epoch' = NextEpoch(Len(sp.removed))
       ELSE /\ epoch' = NextEpoch(0)
            /\ UNCHANGED <<eventQueue, inflight>>
    /\ UNCHANGED <<flushInterval, subscribed, sessionId, eventRetryCounter,
                   errorSink, calls, now, sessionEvents, stats>>

\* an instant capture waiting on this flushEvents call resumes and returns
Resume(batch) ==
    [c \in Calls |->
        IF c \in Occs(batch) /\ calls[c].pc = "flushing"
        THEN Built("returned")
        ELSE calls[c]]

\* the fetch of delivery call i settles: flushEvents from line 251 on
FetchSettles(i, outcome) ==
    /\ i \in 1..Len(inflight)
    /\ IF DeliveryFailed(outcome)
       THEN LET st == OnFlushFailure(eventQueue, eventRetryCounter, errorSink,
                                     inflight[i])
            IN  /\ eventQueue' = st.queue
                /\ eventRetryCounter' = st.counter
                /\ errorSink' = st.sink
                /\ stats' = [stats EXCEPT !.failed = Bump(@, Occs(inflight[i])),
                                          !.dropped = Bump(@, st.dropped)]
                /\ epoch' = [epoch EXCEPT !.clean = FALSE]
       ELSE /\ stats' = [stats EXCEPT !.ok = Bump(@, Occs(inflight[i]))]
            /\ UNCHANGED <<eventQueue, eventRetryCounter, errorSink, epoch>>
    /\ inflight' = RemoveAt(inflight, i)
    /\ calls' = Resume(inflight[i])
    /\ UNCHANGED <<flushInterval, subscribed, sessionId, now, lastTick,
                   sessionEvents>>

\* mutant: notifications arrive although the subscription failed
HandleSessionStateChange_Unsubscribed(sessionState, r) ==
    /\ sessionEvents < MaxSessionEvents
    /\ sessionState = "SignedIn" => ClockReadable
    /\ sessionEvents' = sessionEvents + 1
    /\ sessionId' = IF sessionState = "SignedIn" THEN generateSessionId(r, now)
                    ELSE IF sessionState = "SignedOut" THEN Undefined
                    ELSE sessionId
    /\ UNCHANGED <<flushInterval, subscribed, eventQueue, eventRetryCounter,
                   errorSink, inflight, calls, now, lastTick, stats, epoch>>

\* handleSessionStateChange, called by the subscription
HandleSessionStateChange(sessionState, r) ==
    /\ subscribed
    /\ sessionEvents < MaxSessionEvents
    /\ sessionState = "SignedIn" => ClockReadable
    /\ sessionEvents' = sessionEvents + 1
    /\ sessionId' = IF sessionState = "SignedIn" THEN generateSessionId(r, now)
                    ELSE IF sessionState = "SignedOut" THEN Undefined
                    ELSE sessionId
    /\ UNCHANGED <<flushInterval, subscribed, eventQueue, eventRetryCounter,
                   errorSink, inflight, calls, now, lastTick, stats, epoch>>

\* the wall clock moves on
ClockAdvance ==
    /\ now < MaxClock
    /\ now' = now + 1
    /\ UNCHANGED <<flushInterval, subscribed, sessionId, eventQueue,
                   eventRetryCounter, errorSink, inflight, calls, lastTick,
                   sessionEvents, stats, epoch>>

Next ==
    \/ \E c \in Calls, ev \in Payloads : CaptureEvent(c, ev)
    \/ \E c \in Calls, r \in IdentityResults : GetUserReturns(c, r)
    \/ \E c \in Calls, r \in CatalogResults : GetEntityByRefReturns(c, r)
    \/ FlushTimer
    \/ \E i \in Calls, outcome \in FetchOutcomes : FetchSettles(i, outcome)
    \/ \E s \in SessionStates, r \in RandFragments : HandleSessionStateChange(s, r)
    \/ ClockAdvance

Spec == Init /\ [][Next]_vars

\* time passes, timer ticks keep firing and every fetch settles
FairSpec ==
    /\ Spec
    /\ WF_vars(ClockAdvance)
    /\ WF_vars(FlushTimer)
    /\ WF_vars(\E i \in Calls, outcome \in FetchOutcomes : FetchSettles(i, outcome))

\* ------------------------------------------------- vocabulary of the claims

TimerMode == flushInterval # 0
InstantMode == flushInterval = 0

SeqToSet(q) == {q[i] : i \in 1..Len(q)}

\* how often occurrence o sits in the queue / in batches being delivered
InQueueCount(o) == Cardinality({i \in 1..Len(eventQueue) : eventQueue[i].occ = o})
InFlightCount(o) ==
    Cardinality({p \in (1..Len(inflight)) \X (1..MaxCaptures + 1) :
                    /\ p[2] <= Len(inflight[p[1]])
                    /\ inflight[p[1]][p[2]].occ = o})

\* delivery calls that have contained occurrence o
Attempts(o) == stats.failed[o] + stats.ok[o] + InFlightCount(o)

\* every enriched record the program holds
AllEvents ==
    SeqToSet(eventQueue) \cup UNION {SeqToSet(inflight[i]) : i \in 1..Len(inflight)}

\* 'Max retries reached' reports in the sink naming the serialisation id
MaxReports(id) ==
    Cardinality({i \in 1..Len(errorSink) : errorSink[i] = MaxRetriesError(id)})

IsPrefix(p, q) == Len(p) <= Len(q) /\ SubSeq(q, 1, Len(p)) = p

\* the step is the settling of delivery call i, failing or succeeding
FailStep(i) ==
    \E outcome \in FetchOutcomes : DeliveryFailed(outcome) /\ FetchSettles(i, outcome)
OkStep(i) ==
    \E outcome \in FetchOutcomes : ~DeliveryFailed(outcome) /\ FetchSettles(i, outcome)

\* the step is capture call c building its record from catalog result r
EnrichStep(c, r) == ~r.threw /\ GetEntityByRefReturns(c, r)

\* -------------------------------------------------------------------- C1
\* C1: in timer mode, an event whose deliveries failed exactly retryLimit
\* times and whose next delivery succeeds has been delivered exactly once and
\* the error sink holds no 'Max retries reached' report for it.
C1_RetryThenSuccess ==
    [][TimerMode =>
        \A i \in 1..Len(inflight) : OkStep(i) =>
            \A e \in SeqToSet(inflight[i]) :
                stats.failed[e.occ] = retryLimit =>
                    /\ stats'.ok[e.occ] = 1
                    /\ MaxReports(EventId(e))' = 0]_vars

\* -------------------------------------------------------------------- C2
\* C2: when an event's delivery fails for the (retryLimit + 1)-th time, the
\* sink then holds exactly one 'Max retries reached' report for it (none was
\* posted before) and the event is in neither the queue nor a batch.
C2_ExhaustedOnce ==
    [][\A i \in 1..Len(inflight) : FailStep(i) =>
          \A e \in SeqToSet(inflight[i]) :
              stats'.failed[e.occ] = retryLimit + 1 =>
                  /\ MaxReports(EventId(e)) = 0
                  /\ MaxReports(EventId(e))' = 1
                  /\ InQueueCount(e.occ)' = 0
                  /\ InFlightCount(e.occ)' = 0]_vars

\* -------------------------------------------------------------------- C3
\* C3: in both modes every event that is re-enqueued is eventually handed to
\* a later delivery attempt.
C3_RequeuedIsRetried ==
    \A o \in Calls : [](InQueueCount(o) > 0 => <>(InFlightCount(o) > 0))

\* -------------------------------------------------------------------- C4
\* C4: in timer mode every enriched event is in exactly one place (the queue,
\* one batch being delivered, delivered, or abandoned); a tick moves the
\* whole queue into one new batch; no other step removes or reorders queued
\* events or changes a batch that is being delivered.
C4_NoLossNoDuplicate ==
    /\ [](TimerMode =>
            \A o \in Calls :
                InQueueCount(o) + InFlightCount(o) + stats.ok[o] + stats.dropped[o]
                    = IF calls[o].built THEN 1 ELSE 0)
    /\ [][TimerMode =>
            /\ (FlushTimer /\ eventQueue # <<>>) =>
                    /\ eventQueue' = <<>>
                    /\ inflight' = Append(inflight, eventQueue)
            /\ ~FlushTimer =>
                    /\ IsPrefix(eventQueue, eventQueue')
                    /\ \A j \in 1..Len(inflight') :
                           \E i \in 1..Len(inflight) : inflight'[j] = inflight[i]]_vars

\* a tick fired while an earlier batch was still being delivered
C4_Witness == TimerMode /\ Len(inflight) = 2

\* -------------------------------------------------------------------- C5
\* C5: in instant mode no timer runs, a capture whose lookups resolve starts
\* one delivery call whose batch is exactly the record just built, leaving
\* the queue as it was, and that record is never in another delivery call.
C5_InstantDeliversAlone ==
    /\ [](InstantMode =>
            /\ ~ENABLED FlushTimer
            /\ \A o \in Calls : Attempts(o) = IF calls[o].built THEN 1 ELSE 0)
    /\ [][InstantMode =>
            \A c \in Calls, r \in CatalogResults :
                EnrichStep(c, r) =>
                    /\ inflight' = Append(inflight,
                          <<EnrichedOf(c, calls[c], r.value, now, sessionId)>>)
                    /\ eventQueue' = eventQueue]_vars

\* an instant delivery is under way while the queue holds another event
C5_Witness == InstantMode /\ eventQueue # <<>> /\ inflight # <<>>

\* -------------------------------------------------------------------- C6
\* C6: in timer mode, when captures were enqueued since the previous tick and
\* no delivery failed since, the tick starts one delivery call whose batch is
\* exactly those events and leaves the queue empty.
C6_TickFlushesEpoch ==
    [][(TimerMode /\ FlushTimer /\ epoch.ticked /\ epoch.clean /\ epoch.pushed # <<>>)
          => /\ inflight' = Append(inflight, epoch.pushed)
             /\ eventQueue' = <<>>]_vars

\* the second of two ticks took the two events captured between them
C6_Witness == TimerMode /\ epoch.flushed = 2 /\ eventQueue = <<>>

\* -------------------------------------------------------------------- C7
\* C7: in instant mode an event whose delivery failed below the retry limit
\* is at once in a delivery call of its own again, and it is abandoned only
\* after retryLimit + 1 failed attempts.
C7_InstantRetriesAtOnce ==
    InstantMode =>
        \A o \in Calls :
            /\ (stats.failed[o] >= 1 /\ stats.dropped[o] = 0 /\ stats.ok[o] = 0)
                    => InFlightCount(o) = 1
            /\ stats.dropped[o] = 1 => stats.failed[o] = retryLimit + 1

\* -------------------------------------------------------------------- C8
\* C8: when the identity lookup throws or yields no user, the capture call
\* ends there: the catalog is not asked, and queue, retry ledger, error sink
\* and deliveries are untouched by it, then and later.
C8_NoUserNoEffect ==
    /\ [][\A c \in Calls, r \in IdentityResults :
            (GetUserReturns(c, r) /\ getUser(r) = Undefined) =>
                /\ calls'[c] = Settled("returned")
                /\ UNCHANGED <<eventQueue, eventRetryCounter, errorSink, inflight>>]_vars
    /\ [](\A c \in Calls :
            ~calls[c].built => InQueueCount(c) + Attempts(c) + stats.dropped[c] = 0)

\* a capture ended without a user while the pipeline holds other events
C8_Witness ==
    \E c \in Calls : calls[c] = Settled("returned") /\ AllEvents # {}

\* -------------------------------------------------------------------- C9
\* C9: no capture call ends in a rejection.
C9_CaptureNeverRejects == \A c \in Calls : calls[c].outcome # "rejected"

\* ------------------------------------------------------------------- C10
\* C10 as stated: the record built for a capture carries the session id that
\* was current when capture was called.
C10_SessionAtCall ==
    [][\A c \in Calls, r \in CatalogResults :
          EnrichStep(c, r) =>
              \E e \in AllEvents' : e.occ = c /\ e.sessionId = calls[c].callSid]_vars

\* C10 amended: the record carries the session id current when it is built,
\* after both lookups, and the clock reading of that moment, which is not
\* earlier than the call.
C10_SessionAtEnrichment ==
    [][\A c \in Calls, r \in CatalogResults :
          EnrichStep(c, r) =>
              \E e \in AllEvents' :
                  /\ e.occ = c
                  /\ e.sessionId = sessionId
                  /\ e.timestamp = now
                  /\ e.timestamp >= calls[c].callTime]_vars

\* a record whose session id is not the one current at the call
C10_Witness ==
    \E c \in Calls :
        /\ calls[c].pc = "flushing"
        /\ \E e \in AllEvents : e.occ = c /\ e.sessionId # calls[c].callSid

\* ------------------------------------------------------------------- C11
\* the step is the delivery of notification s with Math.random() fragment r
SessionStep(s, r) == HandleSessionStateChange(s, r)

\* C11 as stated: the session id is absent right after SignedOut, present
\* right after SignedIn, and every SignedIn yields an id different from the
\* id that was current before it.
C11_SignInAlwaysFresh ==
    [][\A s \in SessionStates, r \in RandFragments :
          SessionStep(s, r) =>
              /\ s = "SignedOut" => sessionId' = Undefined
              /\ s = "SignedIn" => sessionId' # Undefined /\ sessionId' # sessionId]_vars

\* C11 amended: absent right after SignedOut, present right after SignedIn;
\* the new id differs from the previous one unless the previous one was made
\* in the same millisecond from the same random fragment.
C11_SignInFreshBestEffort ==
    [][\A s \in SessionStates, r \in RandFragments :
          SessionStep(s, r) =>
              /\ s = "SignedOut" => sessionId' = Undefined
              /\ s = "SignedIn" =>
                    /\ sessionId' # Undefined
                    /\ sessionId' = sessionId => sessionId = <<r, now>>]_vars

\* a sign-in at a later millisecond, after an earlier notification
C11_Witness ==
    /\ sessionEvents = 2
    /\ sessionId # Undefined
    /\ sessionId[2] = now
    /\ now > 0

\* ------------------------------------------------------------------- C12
\* events with serialisation id that the step appended to the queue in the
\* catch block of a failed delivery call (0 for every other step)
Requeued(id) ==
    IF \E i \in 1..Len(inflight) : FailStep(i)
    THEN Cardinality({j \in (Len(eventQueue) + 1)..Len(eventQueue') :
                         EventId(eventQueue'[j]) = id})
    ELSE 0

\* C12: every count of the retry ledger is within 0..retryLimit (an identity
\* without an entry counts 0); in every step each count grows by exactly the
\* number of events of that identity re-enqueued by the step, so it equals
\* the re-enqueues so far; no entry is ever removed or lowered, on success or
\* on terminal failure.
C12_LedgerCountsRequeues ==
    /\ [](\A id \in DOMAIN eventRetryCounter :
              eventRetryCounter[id] \in 1..retryLimit)
    /\ [][/\ DOMAIN eventRetryCounter \subseteq DOMAIN eventRetryCounter'
          /\ \A id \in DOMAIN eventRetryCounter' :
                Retries(eventRetryCounter', id) - Retries(eventRetryCounter, id)
                    = Requeued(id)]_vars

\* an identity was abandoned at the limit and its entry is still in the ledger
C12_Witness ==
    \E id \in DOMAIN eventRetryCounter :
        eventRetryCounter[id] = retryLimit /\ MaxReports(id) >= 1

\* ------------------------------------------------------------------- C13
\* events of the batch whose serialisation is id
CountInBatch(batch, id) ==
    Cardinality({j \in 1..Len(batch) : EventId(batch[j]) = id})

\* the reports a step appended to the error sink
Posted == SubSeq(errorSink', Len(errorSink) + 1, Len(errorSink'))

\* how many of the reports in p are 'Max retries reached' for id
MaxReportsIn(p, id) ==
    Cardinality({j \in 1..Len(p) : p[j] = MaxRetriesError(id)})

\* of n failed events of one identity whose count stands at k, those that
\* find the count already at the limit when their turn comes
OverLimit(n, k) == IF n > retryLimit - k THEN n - (retryLimit - k) ELSE 0

\* C13: a delivery call that fails, by a transport error or by a non-success
\* status alike, posts one general report first, then one 'Max retries
\* reached' report for each event of the batch that finds its count at
\* retryLimit, and none for the events it re-enqueues; a delivery call that
\* succeeds posts nothing.
C13_ReportsPerDelivery ==
    [][\A i \in 1..Len(inflight) :
          /\ \A outcome \in {"status", "transport"} :
                FetchSettles(i, outcome) =>
                    /\ IsPrefix(errorSink, errorSink')
                    /\ Posted # <<>>
                    /\ Head(Posted) = FlushError
                    /\ \A j \in 2..Len(Posted) : Posted[j].kind = "max"
                    /\ Len(Posted) - 1
                          = Len(inflight[i]) - (Len(eventQueue') - Len(eventQueue))
                    /\ \A e \in SeqToSet(inflight[i]) :
                          MaxReportsIn(Posted, EventId(e))
                              = OverLimit(CountInBatch(inflight[i], EventId(e)),
                                          Retries(eventRetryCounter, EventId(e)))
          /\ FetchSettles(i, "ok") => errorSink' = errorSink]_vars

\* the latest failed delivery posted a general report and then a terminal
\* report, and another delivery succeeded
C13_Witness ==
    /\ Len(errorSink) >= 3
    /\ errorSink[Len(errorSink)].kind = "max"
    /\ errorSink[Len(errorSink) - 1] = FlushError
    /\ \E o \in Calls : stats.ok[o] = 1

\* ------------------------------------------------------------------- C14
\* C14: a delivery call that succeeds leaves queue and retry ledger as they
\* were; a delivery call that fails puts every event of its batch either back
\* at the end of the queue, once, or among the abandoned ones, and counts
\* none of them as delivered.
C14_BatchWinsOrLosesWhole ==
    [][\A i \in 1..Len(inflight) :
          /\ OkStep(i) =>
                /\ UNCHANGED <<eventQueue, eventRetryCounter>>
                /\ \A e \in SeqToSet(inflight[i]) : stats'.ok[e.occ] = stats.ok[e.occ] + 1
          /\ FailStep(i) =>
                /\ IsPrefix(eventQueue, eventQueue')
                /\ \A e \in SeqToSet(inflight[i]) :
                      /\ stats'.ok[e.occ] = stats.ok[e.occ]
                      /\ (InQueueCount(e.occ)' - InQueueCount(e.occ))
                            + MaxReportsIn(Posted, EventId(e)) >= 1
                /\ (Len(eventQueue') - Len(eventQueue)) + (Len(Posted) - 1)
                      = Len(inflight[i])]_vars

\* a batch of two failed as a whole: one general report, both events queued
\* again
C14_Witness ==
    /\ TimerMode
    /\ Len(eventQueue) = 2
    /\ errorSink = <<FlushError>>
    /\ \A o \in Calls : stats.failed[o] = 1

\* ------------------------------------------------------------------- C15
\* C15: a record is never altered once built: every record held after a step
\* was held before it, unless the step built it; what a failed delivery puts
\* back on the queue are records of its batch, whatever the session id is by
\* then, and the count of such a record's identity covers all its failures.
C15_RetryKeepsRecord ==
    /\ [][\A e \in AllEvents' :
              \/ e \in AllEvents
              \/ \E c \in Calls, r \in CatalogResults : EnrichStep(c, r) /\ e.occ = c]_vars
    /\ [][\A i \in 1..Len(inflight) :
              FailStep(i) =>
                  \A j \in (Len(eventQueue) + 1)..Len(eventQueue') :
                      /\ eventQueue'[j] \in SeqToSet(inflight[i])
                      /\ stats'.failed[eventQueue'[j].occ]
                            <= Retries(eventRetryCounter', EventId(eventQueue'[j]))]_vars

\* a record queued again after two failures still carries a session id that
\* is no longer the current one
C15_Witness ==
    \E j \in 1..Len(eventQueue) :
        /\ stats.failed[eventQueue[j].occ] = 2
        /\ eventQueue[j].sessionId # sessionId
        /\ eventQueue[j].sessionId # Undefined

\* ------------------------------------------------------------------- C16
\* C16: when the subscription to the session-state stream failed in the
\* constructor, the delivery mode is selected all the same (ticks fire for a
\* positive interval, never for interval 0), the session id stays absent,
\* and every capture whose lookups resolve is enqueued (timer mode) or handed
\* to a delivery call of its own (instant mode) with an absent sessionId.
C16_NoSubscriptionNoSession ==
    /\ [](~subscribed =>
            /\ sessionId = Undefined
            /\ \A e \in AllEvents : e.sessionId = Undefined
            /\ InstantMode => ~ENABLED FlushTimer
            /\ (TimerMode /\ TimerDue) => ENABLED FlushTimer)
    /\ [][~subscribed =>
            \A c \in Calls, r \in CatalogResults :
                EnrichStep(c, r) =>
                    LET rec == Enriched(c, calls[c].event, now, calls[c].user,
                                        r.value, Undefined)
                    IN  /\ TimerMode => eventQueue' = Append(eventQueue, rec)
                        /\ InstantMode => inflight' = Append(inflight, <<rec>>)]_vars

\* without a subscription, an event was captured after time had passed
C16_Witness ==
    /\ ~subscribed
    /\ \E e \in AllEvents : e.timestamp > 0

\* ------------------------------------------------------------------- C17
\* C17: no delivery call in flight has an empty batch; a tick that finds the
\* queue empty starts no delivery, posts nothing and leaves queue and retry
\* ledger as they were; flushEvents given an empty batch sends nothing.
C17_NoEmptyDelivery ==
    /\ [](/\ \A i \in 1..Len(inflight) : inflight[i] # <<>>
          /\ StartFlush(inflight, <<>>) = inflight)
    /\ [][(FlushTimer /\ eventQueue = <<>>) =>
              UNCHANGED <<inflight, errorSink, eventQueue, eventRetryCounter>>]_vars

\* ticks have fired and nothing was ever captured: each found the queue empty
C17_Witness ==
    /\ epoch.ticked
    /\ lastTick > 0
    /\ \A c \in Calls : ~calls[c].built
    /\ inflight = <<>>

\* ------------------------------------------------------------------- C18
\* 'Max retries reached' reports in the sink
TerminalReports ==
    Cardinality({j \in 1..Len(errorSink) : errorSink[j].kind = "max"})

\* no delivery has succeeded
NoneDelivered == \A o \in Calls : stats.ok[o] = 0

\* nothing is queued or being delivered, and every event that was built has
\* been abandoned with a terminal report
Drained ==
    /\ eventQueue = <<>>
    /\ inflight = <<>>
    /\ \A o \in Calls : calls[o].built => stats.dropped[o] = 1
    /\ TerminalReports = Cardinality({o \in Calls : calls[o].built})

\* C18: in timer mode no event is in more than retryLimit + 1 delivery
\* calls; and when ticks keep firing, every fetch settles and no delivery
\* ever succeeds, the queue eventually is empty and stays empty, every event
\* built having been abandoned with a terminal report.
C18_FailingQueueDrains ==
    /\ [](TimerMode => \A o \in Calls : Attempts(o) <= retryLimit + 1)
    /\ (TimerMode /\ []NoneDelivered) => <>[]Drained

\* an event was abandoned after retryLimit + 1 failed deliveries and nothing
\* is left to deliver
C18_Witness ==
    /\ TimerMode
    /\ NoneDelivered
    /\ eventQueue = <<>>
    /\ inflight = <<>>
    /\ \E o \in Calls : stats.dropped[o] = 1 /\ stats.failed[o] = retryLimit + 1

\* ------------------------------------------------------------------- C19
\* C19: in instant mode every step leaves the queue as it was or appends to
\* it; a delivery that succeeds leaves it unchanged; a delivery that fails
\* for an event whose count is below retryLimit appends that event.
C19_InstantQueueOnlyGrows ==
    [][InstantMode =>
          /\ IsPrefix(eventQueue, eventQueue')
          /\ \A i \in 1..Len(inflight) :
                /\ OkStep(i) => eventQueue' = eventQueue
                /\ FailStep(i) =>
                      \A e \in SeqToSet(inflight[i]) :
                          Retries(eventRetryCounter, EventId(e)) < retryLimit
                              => eventQueue' = Append(eventQueue, e)]_vars

\* two instant deliveries failed and both events sit in the queue
C19_Witness ==
    /\ InstantMode
    /\ Len(eventQueue) = 2
    /\ inflight = <<>>

====
